---- MODULE Spec2Model ----
(***************************************************************************)
(* Model of ocrd_segment.classify_address_layout: the processing of one    *)
(* page by ClassifyAddressLayout.process (suppression of overlapping       *)
(* detector instances, best-score tracking, and the per-instance loop that *)
(* builds a candidate region, reconciles it with the existing text regions *)
(* and commits or discards it).                                            *)
(*                                                                         *)
(* Geometry is modelled on a raster of RasterCols pixel columns and        *)
(* RasterRows pixel rows in which every shape spans all rows: a mask is    *)
(* the set of its pixel columns, a polygon is the pair <<a, b>> of its     *)
(* left and right edge (a rectangle over all rows).  Shapely's predicates  *)
(* and constructions are computed on these rectangles.                     *)
(***************************************************************************)
EXTENDS Integers, Sequences, FiniteSets, TLC

\* ---------------------------------------------------------------- bounds
MaxInst == 3        \* detector instances per page
MaxRegions == 2     \* text regions of the input page
MaxLines == 2       \* text lines per input region
RasterRows == 40    \* height of the page raster in pixels
RasterCols == 32    \* width of the page raster in pixels

\* ------------------------------------------------------ program constants
NumCategories == 4  \* best = np.zeros(4); self.categories has 4 entries
Padding == 4        \* bounding boxes of components are padded by 4 pixels
MaxDilations == 10  \* for _ in range(10)

categories == <<"", "address-rcpt", "address-sndr", "address-contact">>

\* ------------------------------------------------------------- utilities
Min(a, b) == IF a < b THEN a ELSE b
Max(a, b) == IF a > b THEN a ELSE b
Range(s) == {s[k] : k \in DOMAIN s}

\* '%02d' % n
Fmt02d(n) == IF n < 10 THEN "0" \o ToString(n) ELSE ToString(n)

\* int(np.sqrt(area)//10)
RECURSIVE SqrtFloor(_, _)
SqrtFloor(area, r) == IF (r + 1) * (r + 1) > area THEN r ELSE SqrtFloor(area, r + 1)

\* scale = int(np.sqrt(area)//10); scale = scale + (scale+1)%2
ScaleOf(area) ==
    LET scale == SqrtFloor(area, 0) \div 10
    IN  scale + ((scale + 1) % 2)

\* ------------------------------------------------------ shapely, on <<a, b>>
Area(p) == (p[2] - p[1]) * RasterRows
Within(p, q) == q[1] <= p[1] /\ p[2] <= q[2]
Intersects(p, q) == Max(p[1], q[1]) <= Min(p[2], q[2])
IntersectionArea(p, q) ==
    IF Max(p[1], q[1]) < Min(p[2], q[2])
    THEN (Min(p[2], q[2]) - Max(p[1], q[1])) * RasterRows
    ELSE 0
Buffer(p, d) == <<p[1] - d, p[2] + d>>
\* line_poly.union(region_poly), replaced by its convex hull when multi-part
UnionHull(p, q) == <<Min(p[1], q[1]), Max(p[2], q[2])>>

\* ------------------------------------------------- mask post-processing
Cols == 0 .. (RasterCols - 1)

\* np.count_nonzero(mask)
CountNonzero(mask) == Cardinality(mask) * RasterRows

\* np.count_nonzero(imask * jmask) / np.count_nonzero(imask + jmask) > 0.5
IoUAboveHalf(imask, jmask) ==
    2 * CountNonzero(imask \cap jmask) > CountNonzero(imask \cup jmask)

\* the division above raises ZeroDivisionError when both masks are empty
IoUDivisionByZero(imask, jmask) == CountNonzero(imask \cup jmask) = 0

\* the label image cv2.connectedComponents gives: components[x] is the index
\* of the blob (a set of columns) that holds column x, 0 for background
LabelAt(components, x) ==
    IF \E n \in DOMAIN components : x \in components[n]
    THEN CHOOSE n \in DOMAIN components : x \in components[n]
    ELSE 0

\* fill pixel mask from (padded) inner bboxes of the components it touches:
\* left, top, w, h = cv2.boundingRect(components == label); right = left + w;
\* mask[.., max(0, left - 4) : min(width, right + 4)] = mask.max()
FillComponents(mask, components) ==
    LET complabels == {LabelAt(components, x) : x \in mask}
        left(label) == CHOOSE x \in components[label] :
                           \A y \in components[label] : x <= y
        right(label) == 1 + CHOOSE x \in components[label] :
                               \A y \in components[label] : y <= x
    IN  mask \cup UNION {Max(0, left(label) - Padding) ..
                         (Min(RasterCols, right(label) + Padding) - 1) :
                            label \in complabels \ {0}}

\* cv2.dilate(mask, np.ones((scale, scale))) > 0, scale odd
Dilate(mask, scale) ==
    UNION {Max(0, y - (scale - 1) \div 2) ..
           Min(RasterCols - 1, y + (scale - 1) \div 2) : y \in mask}

\* cv2.findContours(mask, RETR_EXTERNAL, CHAIN_APPROX_SIMPLE): one contour per
\* maximal run of columns, as <<first column, last column>>, in scan order;
\* start is the first column of the run being scanned, -1 outside a run
RECURSIVE ContoursFrom(_, _, _)
ContoursFrom(mask, x, start) ==
    IF x = RasterCols
    THEN IF start >= 0 THEN <<<<start, x - 1>>>> ELSE <<>>
    ELSE IF x \in mask
    THEN ContoursFrom(mask, x + 1, IF start >= 0 THEN start ELSE x)
    ELSE IF start >= 0
    THEN <<<<start, x - 1>>>> \o ContoursFrom(mask, x + 1, -1)
    ELSE ContoursFrom(mask, x + 1, -1)
FindContours(mask) == ContoursFrom(mask, 0, -1)

\* contours = [None, None]; for _ in range(10): if len(contours) == 1: break; ...
RECURSIVE DilateLoop(_, _, _, _)
DilateLoop(mask, scale, n, contours) ==
    IF n = MaxDilations \/ Len(contours) = 1
    THEN [contours |-> contours, dilations |-> n]
    ELSE LET dilated == Dilate(mask, scale)
         IN  DilateLoop(dilated, scale, n + 1, FindContours(dilated))

\* ----------------------------------------------- coordinate transforms
\* ocrd_utils.coordinates_for_segment: image -> page coordinates
coordinates_for_segment(p, page_coords) == <<p[1] + page_coords, p[2] + page_coords>>
\* ocrd_utils.coordinates_of_segment: page -> image coordinates
coordinates_of_segment(p, page_coords) == <<p[1] - page_coords, p[2] - page_coords>>

\* ------------------------------------------------------ make_valid
is_valid(p) == p[1] < p[2]
\* a valid polygon leaves both loops at their first test, unchanged
make_valid(p) == p

\* ------------------------------------------------------ polygon_for_parent
\* result: [kind |-> "polygon", poly |-> p], [kind |-> "None"] or
\* [kind |-> "raise", error |-> e]
polygon_for_parent(polygon, parent) ==
    IF ~is_valid(polygon)
    THEN [kind |-> "raise", error |-> "ValueError: A LinearRing must have at least 3 coordinate tuples"]
    ELSE IF parent.Border
    THEN [kind |-> "raise", error |-> "NameError: name 'polygon_from_points' is not defined"]
    ELSE LET parentp == make_valid(<<0, parent.imageWidth>>)
             childp == make_valid(polygon)
         IN  IF Within(childp, parentp)
             THEN [kind |-> "polygon", poly |-> childp]
             ELSE IF IntersectionArea(childp, parentp) = 0
             THEN [kind |-> "None"]
             ELSE [kind |-> "polygon",
                   poly |-> <<Max(childp[1], parentp[1]), Min(childp[2], parentp[2])>>]

\* ------------------------------------------------------------------ state
VARIABLES
    input,          \* the page as read and the detector output (never changes)
    TextRegion,     \* page.TextRegion: the region objects of the page tree
    region,         \* region object -> [id, Coords, TextLine, custom]
    line,           \* text line object -> [id, custom, Coords]
    ro_elems,       \* the ReadingOrder elements of the document: their regionRef
    reading_order,  \* the dict reading_order: region id -> ReadingOrder element
    oldregions,     \* regions removed in favour of a detection
    worse,          \* instances overlapping a better neighbour
    best,           \* best score per category
    i,              \* index of the instance loop (0-based, as in the code)
    log,            \* one record per LOG.info("Detected %s region '%s' ..."), with
                    \* its "removing redundant region" messages and its outcome
    geometry,       \* scale and the outcome of polygon_for_parent for instance i
    pc,             \* "suppress", "best", "instances", "clipped", "done" or "error"
    err             \* the exception that ended the page, if any

vars == <<input, TextRegion, region, line, ro_elems, reading_order, oldregions,
          worse, best, i, log, geometry, pc, err>>

\* preds['class_ids'][k], preds['scores'][k], preds['masks'][:,:,k] for 0-based k
class_ids(k) == input.preds[k + 1].class_id
scores(k) == input.preds[k + 1].score
masks(k) == input.preds[k + 1].mask
NumInstances == Len(input.preds)

\* ------------------------------------------------------------ input pages
\* line.get_custom() values of the input lines
NoCustom == ""
AddressCustom == "subtype: ADDRESS_FULL"

\* line.get_custom() and line.get_custom().startswith('subtype: ADDRESS_')
StartsWithSubtypeAddress(custom) ==
    custom \in {"subtype: ADDRESS_FULL", "subtype: ADDRESS_ZIP", "subtype: ADDRESS_NONE"}

\* detector masks (sets of pixel columns)
MaskBig == 2 .. 22
MaskMid == 2 .. 14
MaskSmall == 2 .. 9
MaskEmpty == {}
MaskEdge == {0, 1}
MaskThin == {5}
MaskSplit == {0, 1, 2} \cup {20, 21, 22}

\* region polygons (page coordinates)
PolyInside == <<3, 8>>
PolyMostlyInside == <<5, 27>>
PolyApart == <<20, 30>>

\* connected components of the binarized page: the columns of each blob
ComponentsBlank == <<>>
ComponentsBlob == <<{1, 2}>>

\* the text lines of an input region: n lines, the last one annotated or not;
\* an input line covers the width of its region
LinesOf(r, n, annotated, poly) ==
    [k \in 1 .. n |->
        [id |-> "r" \o ToString(r) \o "_l" \o ToString(k),
         custom |-> IF annotated /\ k = n THEN AddressCustom ELSE NoCustom,
         Coords |-> poly]]

\* no line, one annotated line, or MaxLines lines with or without an annotation
LineConfigs ==
    {<<0, FALSE>>, <<1, TRUE>>, <<MaxLines, FALSE>>, <<MaxLines, TRUE>>}

InputRegion(r, id, poly, cfg) ==
    [id |-> id, Coords |-> poly, TextLine |-> LinesOf(r, cfg[1], cfg[2], poly)]

\* reading orders over n regions: none, all regions in document order,
\* all regions in reverse order
ReadingOrders(ids) ==
    {<<>>, ids, [k \in 1 .. Len(ids) |-> ids[Len(ids) + 1 - k]]}

Instance(c, s, m) == [class_id |-> c, score |-> s, mask |-> m]

PageInput(preds, components, margin, border, regions, ro) ==
    [preds |-> preds, components |-> components,
     page_coords |-> 0 - margin, Border |-> border,
     imageWidth |-> RasterCols - 2 * margin,
     regions |-> regions, ReadingOrder |-> ro]

\* a page with one annotated region inside the detections
PlainRegions == <<InputRegion(1, "r1", PolyInside, <<2, TRUE>>)>>

\* pages that vary in the detector output
DetectorInput(in) ==
    \E n \in 1 .. MaxInst :
    \E preds \in [1 .. n -> {Instance(c, s, m) : c \in 1 .. 3, s \in 1 .. 2,
                                                  m \in {MaskBig, MaskSmall}}] :
        in = PageInput(preds, ComponentsBlank, 0, FALSE, PlainRegions, <<"r1">>)

\* pages for which the detector reports the background class
BackgroundInput(in) ==
    \E n \in 1 .. MaxInst :
    \E preds \in [1 .. n -> {Instance(c, s, m) : c \in 0 .. 1, s \in 1 .. 2,
                                                  m \in {MaskBig, MaskSmall}}] :
        in = PageInput(preds, ComponentsBlank, 0, FALSE, PlainRegions, <<"r1">>)

\* pages whose detections overlap in a chain
ChainInput(in) ==
    \E preds \in [1 .. 3 -> {Instance(3, s, m) : s \in 1 .. 2,
                                                 m \in {MaskBig, MaskMid, MaskSmall}}] :
        in = PageInput(preds, ComponentsBlank, 0, FALSE, PlainRegions, <<"r1">>)

CandidateSeqs ==
    {<<Instance(1, 2, MaskBig)>>,
     <<Instance(1, 2, MaskSmall)>>,
     <<Instance(1, 2, MaskSmall), Instance(2, 2, MaskBig)>>,
     <<Instance(2, 1, MaskBig), Instance(1, 2, MaskSmall)>>}

\* pages that vary in their regions, lines and reading order
RegionInput(in) ==
    \E n \in 1 .. MaxRegions :
    \E id1 \in {"r1", "addressregion01"} :
    \E polys \in [1 .. n -> {PolyInside, PolyMostlyInside, PolyApart}] :
    \E cfgs \in [1 .. n -> LineConfigs] :
    \E preds \in CandidateSeqs :
        LET ids == [r \in 1 .. n |-> IF r = 1 THEN id1 ELSE "r" \o ToString(r)]
            regions == [r \in 1 .. n |-> InputRegion(r, ids[r], polys[r], cfgs[r])]
        IN  \E ro \in ReadingOrders(ids) :
                in = PageInput(preds, ComponentsBlank, 0, FALSE, regions, ro)

\* pages whose image is larger than the page (rotated), with masks at its edge
ClipInput(in) ==
    \E n \in 1 .. 2 :
    \E preds \in [1 .. n -> {Instance(3, 1, m) :
                                m \in {MaskEmpty, MaskEdge, MaskThin, MaskSplit, MaskBig}}] :
    \E components \in {ComponentsBlank, ComponentsBlob} :
        in = PageInput(preds, components, 3, FALSE, PlainRegions, <<"r1">>)

\* pages with a Border
BorderInput(in) ==
    \E n \in 1 .. 2 :
    \E preds \in [1 .. n -> {Instance(1, 1, m) : m \in {MaskBig, MaskThin}}] :
        in = PageInput(preds, ComponentsBlank, 0, TRUE, PlainRegions, <<"r1">>)

\* a text line whose outline has two points only (a stroke): at column x
StrokeLine(l, x) == [l EXCEPT !.Coords = <<x, x>>]

\* pages on which a line of the second region is such a stroke
StrokeLineInput(in) ==
    \E cfg \in LineConfigs :
    \E annotated \in BOOLEAN :
    \E at \in 1 .. MaxLines :
    \E preds \in CandidateSeqs :
        LET r1 == InputRegion(1, "r1", PolyInside, cfg)
            r2 == InputRegion(2, "r2", PolyInside, <<MaxLines, annotated>>)
            regions == <<r1, [r2 EXCEPT !.TextLine[at] = StrokeLine(@, 4)]>>
        IN  \E ro \in ReadingOrders(<<"r1", "r2">>) :
                in = PageInput(preds, ComponentsBlank, 0, FALSE, regions, ro)

\* ------------------------------------------------------------------- Init
NumRegions == Len(input.regions)
InputLines ==
    UNION {{<<r, k>> : k \in DOMAIN input.regions[r].TextLine} : r \in 1 .. NumRegions}

\* page_get_reading_order: ro[elem.get_regionRef()] = elem, in traversal order
page_get_reading_order(elems) ==
    [id \in Range(elems) |->
        CHOOSE k \in DOMAIN elems : /\ elems[k] = id
                                    /\ \A j \in DOMAIN elems : elems[j] = id => j <= k]

\* page.get_AllRegions(classes=['Text'], order='reading-order', depth=2):
\* the regions the reading order names, in its order, then the others
allregions ==
    LET ro == input.ReadingOrder
        in_reading_order ==
            [k \in DOMAIN ro |-> CHOOSE r \in 1 .. NumRegions : input.regions[r].id = ro[k]]
    IN  in_reading_order \o
        SelectSeq([r \in 1 .. NumRegions |-> r], LAMBDA r : r \notin Range(in_reading_order))

\* allpolys: the polygons of allregions in image coordinates
allpolys ==
    [k \in DOMAIN allregions |->
        coordinates_of_segment(input.regions[allregions[k]].Coords, input.page_coords)]

NoGeometry == [kind |-> ""]

Init ==
    /\ \/ DetectorInput(input)
       \/ BackgroundInput(input)
       \/ ChainInput(input)
       \/ RegionInput(input)
       \/ ClipInput(input)
       \/ BorderInput(input)
       \/ StrokeLineInput(input)
    /\ TextRegion = [r \in 1 .. NumRegions |-> r]
    /\ region = [r \in 1 .. NumRegions |->
                    [id |-> input.regions[r].id,
                     Coords |-> input.regions[r].Coords,
                     TextLine |-> [k \in DOMAIN input.regions[r].TextLine |-> <<r, k>>],
                     custom |-> ""]]
    /\ line = [l \in InputLines |-> input.regions[l[1]].TextLine[l[2]]]
    /\ ro_elems = input.ReadingOrder
    /\ reading_order = page_get_reading_order(input.ReadingOrder)
    /\ oldregions = <<>>
    /\ worse = <<>>
    /\ best = [c \in 0 .. (NumCategories - 1) |-> 0]
    /\ i = 0
    /\ log = <<>>
    /\ geometry = NoGeometry
    /\ pc = "suppress"
    /\ err = ""

\* ------------------------------------------------------- suppression pass
\* the pair's loser, were the earlier instance to lose on equal scores
LoserOnTie(a, b) == IF scores(a) <= scores(b) THEN a ELSE b

\* worse.append(i if preds['scores'][i] < preds['scores'][j] else j)
Loser(a, b) == IF scores(a) < scores(b) THEN a ELSE b

\* for i in range(n): for j in range(i + 1, n): ...
RECURSIVE SuppressionPass(_, _, _)
SuppressionPass(a, b, w) ==
    IF a >= NumInstances THEN w
    ELSE IF b >= NumInstances THEN SuppressionPass(a + 1, a + 2, w)
    ELSE SuppressionPass(a, b + 1,
                         IF IoUAboveHalf(masks(a), masks(b))
                         THEN Append(w, Loser(a, b)) ELSE w)

SuppressionRaises ==
    \E a, b \in 0 .. (NumInstances - 1) :
        a < b /\ IoUDivisionByZero(masks(a), masks(b))

Suppress ==
    /\ pc = "suppress"
    /\ ~SuppressionRaises
    /\ worse' = SuppressionPass(0, 1, <<>>)
    /\ pc' = "best"
    /\ UNCHANGED <<input, TextRegion, region, line, ro_elems, reading_order,
                   oldregions, best, i, log, geometry, err>>

SuppressFails ==
    /\ pc = "suppress"
    /\ SuppressionRaises
    /\ pc' = "error"
    /\ err' = "ZeroDivisionError: division by zero"
    /\ UNCHANGED <<input, TextRegion, region, line, ro_elems, reading_order,
                   oldregions, worse, best, i, log, geometry>>

\* ---------------------------------------------------- best-score tracking
RECURSIVE BestPass(_, _)
BestPass(k, b) ==
    IF k >= NumInstances THEN b
    ELSE IF k \in Range(worse) THEN BestPass(k + 1, b)
    ELSE IF class_ids(k) \notin {1, 2} THEN BestPass(k + 1, b)
    ELSE IF scores(k) > b[class_ids(k)]
         THEN BestPass(k + 1, [b EXCEPT ![class_ids(k)] = scores(k)])
         ELSE BestPass(k + 1, b)

BestScores ==
    /\ pc = "best"
    /\ best' = BestPass(0, best)
    /\ pc' = "instances"
    /\ UNCHANGED <<input, TextRegion, region, line, ro_elems, reading_order,
                   oldregions, worse, i, log, geometry, err>>

\* ---------------------------------------------------------- instance loop
Running == pc = "instances" /\ i < NumInstances
Live == Running /\ i \notin Range(worse)

\* if i in worse: continue
SkipSuppressed ==
    /\ Running
    /\ i \in Range(worse)
    /\ i' = i + 1
    /\ UNCHANGED <<input, TextRegion, region, line, ro_elems, reading_order,
                   oldregions, worse, best, log, geometry, pc, err>>

\* if not cat: raise Exception('detected region for background class')
RaiseBackground ==
    /\ Live
    /\ class_ids(i) = 0
    /\ pc' = "error"
    /\ err' = "detected region for background class"
    /\ UNCHANGED <<input, TextRegion, region, line, ro_elems, reading_order,
                   oldregions, worse, best, i, log, geometry>>

\* if score < best[cat]: cat = 3
Category(k) == IF scores(k) < best[class_ids(k)] THEN 3 ELSE class_ids(k)

\* the id, were it numbered over the instances that survive suppression
RegionIdBySurvivors(k) ==
    "addressregion" \o Fmt02d(1 + Cardinality({j \in 0 .. (k - 1) : j \notin Range(worse)}))

\* region_id = 'addressregion%02d' % (i+1)
RegionId(k) == "addressregion" \o Fmt02d(k + 1)

\* the mask of instance k, post-processed to a polygon and clipped to the page
Geometry(k) ==
    LET mask == masks(k)
        area == CountNonzero(mask)
        scale == ScaleOf(area)
        filled == FillComponents(mask, input.components)
        loop == DilateLoop(filled, scale, 0, <<<<>>, <<>>>>)
    IN  IF Len(loop.contours) = 0
        THEN [kind |-> "raise", error |-> "IndexError: tuple index out of range",
              scale |-> scale]
        ELSE [scale |-> scale] @@
             polygon_for_parent(
                 coordinates_for_segment(loop.contours[1], input.page_coords),
                 [Border |-> input.Border, imageWidth |-> input.imageWidth])

\* mask post-processing and clipping of a live instance, up to the return
\* (or the exception) of polygon_for_parent
BuildPolygon ==
    /\ Live
    /\ class_ids(i) # 0
    /\ geometry' = Geometry(i)
    /\ pc' = "clipped"
    /\ UNCHANGED <<input, TextRegion, region, line, ro_elems, reading_order,
                   oldregions, worse, best, i, log, err>>

\* contours[0], Polygon(polygon) or polygon_from_points raise
GeometryRaises ==
    /\ pc = "clipped"
    /\ geometry.kind = "raise"
    /\ pc' = "error"
    /\ err' = geometry.error
    /\ UNCHANGED <<input, TextRegion, region, line, ro_elems, reading_order,
                   oldregions, worse, best, i, log, geometry>>

\* if region_polygon is None: LOG.warning('Ignoring extant region for class %s',
\* category): the name category is not defined
ClipIsNone ==
    /\ pc = "clipped"
    /\ geometry.kind = "None"
    /\ pc' = "error"
    /\ err' = "NameError: name 'category' is not defined"
    /\ UNCHANGED <<input, TextRegion, region, line, ro_elems, reading_order,
                   oldregions, worse, best, i, log, geometry>>

\* ------------------------------------------------- sibling reconciliation
\* the test, were the dilated candidate left out of it
RedundantUnbuffered(neighpoly, region_poly, scale) ==
    \/ Within(neighpoly, region_poly)
    \/ /\ Intersects(neighpoly, region_poly)
       /\ \/ neighpoly = region_poly
          \/ 5 * IntersectionArea(neighpoly, region_poly) > 4 * Area(neighpoly)

\* neighpoly.within(region_poly) or neighpoly.within(region_poly.buffer(scale)) or
\* (neighpoly.intersects(region_poly) and (neighpoly.context.almost_equals(region_poly)
\*  or neighpoly.context.intersection(region_poly).area > 0.8 * neighpoly.context.area))
Redundant(neighpoly, region_poly, scale) ==
    \/ Within(neighpoly, region_poly)
    \/ Within(neighpoly, Buffer(region_poly, scale))
    \/ /\ Intersects(neighpoly, region_poly)
       /\ \/ neighpoly = region_poly
          \/ 5 * IntersectionArea(neighpoly, region_poly) > 4 * Area(neighpoly)

\* line.get_custom() and line.get_custom().startswith('subtype: ADDRESS_')
IsAddressLine(custom) == custom # "" /\ StartsWithSubtypeAddress(custom)

\* line.id = region.id + '_line%02d' % line_no
LineId(region_id, line_no) == region_id \o "_line" \o Fmt02d(line_no)

\* for line in neighbour.get_TextLine(): ... (re-assign text lines)
\* st: the locals and the objects the sibling loop works on
RECURSIVE StealLines(_, _, _, _)
StealLines(st, textlines, k, line_no) ==
    IF k > Len(textlines) THEN st
    ELSE LET l == textlines[k]
             line_poly == coordinates_of_segment(st.line[l].Coords, input.page_coords)
             inside == Within(line_poly, st.region_poly)
             grown == UnionHull(line_poly, st.region_poly)
             added == [st EXCEPT
                          !.has_address = @ \/ IsAddressLine(st.line[l].custom),
                          !.line[l].id = LineId(st.region.id, line_no),
                          !.region.TextLine = Append(@, l)]
         IN  IF ~is_valid(line_poly)
             THEN \* line_poly = Polygon(...) raises, the loops are left
                  [added EXCEPT !.raised =
                      "ValueError: A LinearRing must have at least 3 coordinate tuples"]
             ELSE StealLines(
                      [added EXCEPT
                          !.region_poly = IF inside THEN @ ELSE grown,
                          !.region.Coords =
                              IF inside THEN @
                              ELSE coordinates_for_segment(grown, input.page_coords)],
                      textlines, k + 1, line_no + 1)

\* if neighbour.id in reading_order: roelem.set_regionRef(region.id);
\* reading_order[region.id] = roelem; del reading_order[neighbour.id]
Retarget(st, neighbour_id) ==
    IF neighbour_id \notin DOMAIN st.reading_order THEN st
    ELSE LET roelem == st.reading_order[neighbour_id]
             assigned == [id \in DOMAIN st.reading_order \cup {st.region.id} |->
                             IF id = st.region.id THEN roelem ELSE st.reading_order[id]]
         IN  [st EXCEPT
                 !.ro_elems[roelem] = st.region.id,
                 !.reading_order =
                     [id \in DOMAIN assigned \ {neighbour_id} |-> assigned[id]]]

\* neighbour.parent_object_.TextRegion.remove(neighbour)
RemoveRegion(regions, neighbour) ==
    LET first == CHOOSE k \in DOMAIN regions :
                     /\ regions[k] = neighbour
                     /\ \A j \in DOMAIN regions : regions[j] = neighbour => k <= j
    IN  [k \in 1 .. (Len(regions) - 1) |-> IF k < first THEN regions[k] ELSE regions[k + 1]]

\* the first number, were the lines of every sibling numbered from 0
FirstLineNoRestarts(textlines) == 0

\* line_no = len(region.get_TextLine())
FirstLineNo(textlines) == Len(textlines)

\* the test, were the regions removed before not remembered
NeverRemoved(removed, neighbour) == FALSE

\* if neighbour in oldregions: continue
AlreadyRemoved(removed, neighbour) == neighbour \in Range(removed)

\* for neighbour, neighpoly in zip(allregions, allpolys): ...
RECURSIVE Neighbours(_, _, _)
Neighbours(st, k, scale) ==
    IF k > Len(allregions) THEN st
    ELSE LET neighbour == allregions[k]
         IN  IF AlreadyRemoved(st.oldregions, neighbour)
             THEN Neighbours(st, k + 1, scale)
             ELSE IF Redundant(allpolys[k], st.region_poly, scale)
             THEN LET stolen == StealLines(st, region[neighbour].TextLine, 1,
                                           FirstLineNo(st.region.TextLine))
                      remembered == [stolen EXCEPT !.oldregions = Append(@, neighbour)]
                      removed == [remembered EXCEPT
                                     !.TextRegion = RemoveRegion(@, neighbour)]
                  IN  IF stolen.raised # "" THEN stolen
                      ELSE IF neighbour \notin Range(stolen.TextRegion)
                      THEN \* list.remove raises
                           [remembered EXCEPT !.raised =
                               "ValueError: list.remove(x): x not in list"]
                      ELSE Neighbours(Retarget(removed, region[neighbour].id),
                                      k + 1, scale)
             ELSE Neighbours(st, k + 1, scale)

\* the new region of instance k and the locals before the sibling loop
Candidate(k) ==
    [region |-> [id |-> RegionId(k),
                 Coords |-> geometry.poly,
                 TextLine |-> <<>>,
                 custom |-> "subtype:" \o categories[Category(k) + 1]],
     region_poly |-> coordinates_of_segment(geometry.poly, input.page_coords),
     has_address |-> FALSE,
     raised |-> "",
     line |-> line,
     oldregions |-> oldregions,
     TextRegion |-> TextRegion,
     ro_elems |-> ro_elems,
     reading_order |-> reading_order]

\* the sibling loop of instance k
Reconciled(k) == Neighbours(Candidate(k), 1, geometry.scale)

\* the object of the region made for instance k
NewRegion(k) == NumRegions + k + 1

\* the gate, were every candidate committed
CommitAlways(has_address) == TRUE

\* if has_address: page.add_TextRegion(region)
Commit(has_address) == has_address

\* the objects and locals after the sibling loop and the commit or discard
Reconcile(st, accept) ==
    /\ region' = region @@ (NewRegion(i) :> st.region)
    /\ TextRegion' = IF accept THEN Append(st.TextRegion, NewRegion(i))
                     ELSE st.TextRegion
    /\ line' = st.line
    /\ oldregions' = st.oldregions
    /\ ro_elems' = st.ro_elems
    /\ reading_order' = st.reading_order
    /\ log' = Append(log, [instance |-> i,
                           name |-> categories[Category(i) + 1],
                           region_id |-> st.region.id,
                           removed |-> SubSeq(st.oldregions, Len(oldregions) + 1,
                                              Len(st.oldregions)),
                           added |-> accept])
    /\ geometry' = NoGeometry
    /\ i' = i + 1
    /\ pc' = "instances"
    /\ UNCHANGED <<input, worse, best, err>>

\* if has_address: page.add_TextRegion(region)
AcceptRegion ==
    /\ pc = "clipped"
    /\ geometry.kind = "polygon"
    /\ \E st \in {Reconciled(i)} :
           /\ st.raised = ""
           /\ Commit(st.has_address)
           /\ Reconcile(st, TRUE)

\* else: LOG.info("Ignoring %s region '%s' without any address lines", ...)
DiscardRegion ==
    /\ pc = "clipped"
    /\ geometry.kind = "polygon"
    /\ \E st \in {Reconciled(i)} :
           /\ st.raised = ""
           /\ ~Commit(st.has_address)
           /\ Reconcile(st, FALSE)

\* an exception leaves the sibling loop: what the loop did to the objects of
\* the page up to there stays, the new region (a local) is lost
SiblingLoopRaises ==
    /\ pc = "clipped"
    /\ geometry.kind = "polygon"
    /\ \E st \in {Reconciled(i)} :
           /\ st.raised # ""
           /\ TextRegion' = st.TextRegion
           /\ line' = st.line
           /\ oldregions' = st.oldregions
           /\ ro_elems' = st.ro_elems
           /\ reading_order' = st.reading_order
           /\ pc' = "error"
           /\ err' = st.raised
    /\ UNCHANGED <<input, region, worse, best, i, log, geometry>>

\* the page is serialised
Finish ==
    /\ pc = "instances"
    /\ i = NumInstances
    /\ pc' = "done"
    /\ UNCHANGED <<input, TextRegion, region, line, ro_elems, reading_order,
                   oldregions, worse, best, i, log, geometry, err>>

Next ==
    \/ Suppress
    \/ SuppressFails
    \/ BestScores
    \/ SkipSuppressed
    \/ RaiseBackground
    \/ BuildPolygon
    \/ GeometryRaises
    \/ ClipIsNone
    \/ AcceptRegion
    \/ DiscardRegion
    \/ SiblingLoopRaises
    \/ Finish

Spec == Init /\ [][Next]_vars

\* =================================================== polygon_for_parent
\* polygon_for_parent as a function of its arguments, on polygons with concave
\* outlines: a polygon is the set of the unit cells <<x, y>> it covers on a
\* canvas of ClipCols x ClipRows cells
ClipCols == 4
ClipRows == 3
Canvas == (0 .. (ClipCols - 1)) \X (0 .. (ClipRows - 1))

\* Polygon([[0,0], [0,imageHeight], [imageWidth,imageHeight], [imageWidth,0]])
PageRectangle(imageWidth, imageHeight) ==
    {c \in Canvas : c[1] < imageWidth /\ c[2] < imageHeight}

\* the cells of S that share an edge with a cell of R
Touching(S, R) ==
    {c \in S : \E d \in R : \/ c[1] = d[1] /\ (c[2] - d[2]) \in {-1, 1}
                            \/ c[2] = d[2] /\ (c[1] - d[1]) \in {-1, 1}}

\* the part of S that holds the cells R
RECURSIVE PartOf(_, _)
PartOf(S, R) ==
    IF Touching(S, R) \subseteq R THEN R ELSE PartOf(S, R \cup Touching(S, R))

\* interp.type == 'MultiPolygon': the cells are in more than one part
IsMultiPolygon(S) == S # {} /\ \E c \in S : PartOf(S, {c}) # S

\* the corners at the left and at the right end of every row of S
LeftCorners(S) ==
    UNION {LET left == CHOOSE x \in {c[1] : c \in {d \in S : d[2] = r}} :
                           \A d \in S : d[2] = r => x <= d[1]
           IN  {<<left, r>>, <<left, r + 1>>} : r \in {c[2] : c \in S}}
RightCorners(S) ==
    UNION {LET right == 1 + CHOOSE x \in {c[1] : c \in {d \in S : d[2] = r}} :
                                \A d \in S : d[2] = r => d[1] <= x
           IN  {<<right, r>>, <<right, r + 1>>} : r \in {c[2] : c \in S}}

\* at height t some chord between two corners is left of (right of) column x
ChordLeftOf(corners, t, x) ==
    \E p, q \in corners :
        /\ p[2] <= t /\ t <= q[2]
        /\ IF p[2] = q[2] THEN p[1] < x
           ELSE p[1] * (q[2] - p[2]) + (q[1] - p[1]) * (t - p[2]) < x * (q[2] - p[2])
ChordRightOf(corners, t, x) ==
    \E p, q \in corners :
        /\ p[2] <= t /\ t <= q[2]
        /\ IF p[2] = q[2] THEN p[1] > x
           ELSE p[1] * (q[2] - p[2]) + (q[1] - p[1]) * (t - p[2]) > x * (q[2] - p[2])

\* interp.convex_hull: the cells that the convex hull of S reaches into
ConvexHull(S) ==
    {c \in Canvas :
        /\ \E d \in S : d[2] <= c[2]
        /\ \E d \in S : d[2] >= c[2]
        /\ \E t \in {c[2], c[2] + 1} : ChordLeftOf(LeftCorners(S), t, c[1] + 1)
        /\ \E t \in {c[2], c[2] + 1} : ChordRightOf(RightCorners(S), t, c[1])}

\* the clip, were the child returned as it is
IntersectionKeepsChild(childp, parentp) == childp

\* childp.intersection(parentp)
Intersection(childp, parentp) == childp \cap parentp

\* the parent polygon a result is to lie in
ParentPolygon(parent) ==
    IF parent.isPage /\ ~parent.Border
    THEN PageRectangle(parent.imageWidth, parent.imageHeight)
    ELSE parent.Coords

\* polygon_for_parent(polygon, parent) on cells.  A polygon of cells is valid
\* and has integer corners, so make_valid and np.round return it unchanged.
polygon_for_parent_on_cells(polygon, parent) ==
    IF ~parent.isPage \/ parent.Border
    THEN [kind |-> "raise", error |-> "NameError: name 'polygon_from_points' is not defined"]
    ELSE LET parentp == PageRectangle(parent.imageWidth, parent.imageHeight)
             childp == polygon
             interp == Intersection(childp, parentp)
         IN  IF childp \subseteq parentp
             THEN [kind |-> "polygon", cells |-> childp, hull |-> FALSE]
             ELSE IF interp = {}
             THEN [kind |-> "None"]
             ELSE IF IsMultiPolygon(interp)
             THEN [kind |-> "polygon", cells |-> ConvexHull(interp), hull |-> TRUE]
             ELSE [kind |-> "polygon", cells |-> interp, hull |-> FALSE]

\* child polygons: a bar along the lower edge of the canvas with a prong in
\* every column, up to row top[x]
ProngPolygon(top) == {c \in Canvas : c[2] >= top[c[1] + 1]}

\* a concave parent outline (an L) and a convex one
ConcaveOutline == {c \in Canvas : c[1] = 0 \/ c[2] = ClipRows - 1}
ConvexOutline == PageRectangle(ClipCols - 1, ClipRows - 1)

ClipArguments(in) ==
    \E top \in [1 .. ClipCols -> 0 .. (ClipRows - 1)] :
        \/ \E w \in 1 .. ClipCols, h \in 1 .. ClipRows :
               in = [polygon |-> ProngPolygon(top),
                     parent |-> [isPage |-> TRUE, Border |-> FALSE,
                                 imageWidth |-> w, imageHeight |-> h, Coords |-> {}]]
        \/ \E isPage \in BOOLEAN, outline \in {ConcaveOutline, ConvexOutline} :
               in = [polygon |-> ProngPolygon(top),
                     parent |-> [isPage |-> isPage, Border |-> isPage,
                                 imageWidth |-> ClipCols, imageHeight |-> ClipRows,
                                 Coords |-> outline]]

ClipInit ==
    /\ ClipArguments(input)
    /\ geometry = NoGeometry
    /\ pc = "call"
    /\ err = ""
    /\ TextRegion = <<>> /\ region = <<>> /\ line = <<>> /\ ro_elems = <<>>
    /\ reading_order = <<>> /\ oldregions = <<>> /\ worse = <<>> /\ best = <<>>
    /\ i = 0 /\ log = <<>>

\* the call returns a polygon or None
ClipReturns ==
    /\ pc = "call"
    /\ \E result \in {polygon_for_parent_on_cells(input.polygon, input.parent)} :
           /\ result.kind # "raise"
           /\ geometry' = result
           /\ pc' = "returned"
    /\ UNCHANGED <<input, TextRegion, region, line, ro_elems, reading_order,
                   oldregions, worse, best, i, log, err>>

\* the call raises
ClipRaises ==
    /\ pc = "call"
    /\ \E result \in {polygon_for_parent_on_cells(input.polygon, input.parent)} :
           /\ result.kind = "raise"
           /\ geometry' = result
           /\ err' = result.error
           /\ pc' = "error"
    /\ UNCHANGED <<input, TextRegion, region, line, ro_elems, reading_order,
                   oldregions, worse, best, i, log>>

ClipNext == ClipReturns \/ ClipRaises

ClipSpec == ClipInit /\ [][ClipNext]_vars

\* ================================================ relationship verdict
\* the branch the sibling loop takes for a region polygon against a candidate
\* polygon, as a function of the two polygons and scale
MaxCoord == 8

\* neighpoly.crosses(region_poly): never true of two polygons (two shapes of
\* dimension 2 do not cross)
Crosses(p, q) == FALSE

\* neighpoly.overlaps(region_poly): the interiors meet and neither polygon
\* is within the other
Overlaps(p, q) == IntersectionArea(p, q) > 0 /\ ~Within(p, q) /\ ~Within(q, p)

\* if ...: (remove) elif neighpoly.crosses(region_poly): ... elif
\* neighpoly.overlaps(region_poly): ...; "disjoint" when no branch is taken
Verdict(neighpoly, region_poly, scale) ==
    IF Redundant(neighpoly, region_poly, scale) THEN "subsumed"
    ELSE IF Crosses(neighpoly, region_poly) THEN "crossing"
    ELSE IF Overlaps(neighpoly, region_poly) THEN "overlapping"
    ELSE "disjoint"

VerdictArguments(in) ==
    \E a1 \in 0 .. (MaxCoord - 1), a2 \in 0 .. (MaxCoord - 1) :
    \E b1 \in (a1 + 1) .. MaxCoord, b2 \in (a2 + 1) .. MaxCoord :
    \E scale \in {1, 3} :
        in = [E |-> <<a1, b1>>, C |-> <<a2, b2>>, scale |-> scale]

VerdictInit ==
    /\ VerdictArguments(input)
    /\ geometry = NoGeometry
    /\ pc = "call"
    /\ err = ""
    /\ TextRegion = <<>> /\ region = <<>> /\ line = <<>> /\ ro_elems = <<>>
    /\ reading_order = <<>> /\ oldregions = <<>> /\ worse = <<>> /\ best = <<>>
    /\ i = 0 /\ log = <<>>

\* the verdict for E against C, and for C against E
Classify ==
    /\ pc = "call"
    /\ geometry' = [kind |-> "verdict",
                    forward |-> Verdict(input.E, input.C, input.scale),
                    backward |-> Verdict(input.C, input.E, input.scale)]
    /\ pc' = "returned"
    /\ UNCHANGED <<input, TextRegion, region, line, ro_elems, reading_order,
                   oldregions, worse, best, i, log, err>>

VerdictNext == Classify

VerdictSpec == VerdictInit /\ [][VerdictNext]_vars

\* ============================================================ make_valid
\* make_valid as a function of its argument.  What it reads of a polygon:
\*   coords  the number of polygon.exterior.coords (the closing point counted)
\*   start   the vertex of the ring that the coordinate sequence starts at
\*   valid   polygon.is_valid
\*   area    int(polygon.area)
\*   fix     for every starting vertex, the least tolerance at which
\*           simplification of the ring from that vertex gives a valid polygon
MaxVertices == 4
MaxArea == 3

\* polygon.simplify(tolerance)
simplify(polygon, tolerance) ==
    [polygon EXCEPT !.valid = @ \/ tolerance >= polygon.fix[polygon.start]]

\* Polygon(polygon.exterior.coords[-split:] + polygon.exterior.coords[:-split]):
\* the closing point is among the coordinates that are moved, so the ring
\* starts split - 1 vertices earlier
Rotated(polygon, split) ==
    LET vertices == polygon.coords - 1
    IN  [polygon EXCEPT !.start = (@ + vertices * split - (split - 1)) % vertices]

\* for split in range(1, len(polygon.exterior.coords)-1): ...
RECURSIVE RotationLoop(_, _, _)
RotationLoop(polygon, split, stop) ==
    IF split >= stop THEN polygon
    ELSE IF polygon.valid \/ simplify(polygon, polygon.area).valid THEN polygon
    ELSE RotationLoop(Rotated(polygon, split), split + 1, stop)

\* for tolerance in range(1, int(polygon.area)): ...
\* tried: the tolerances the polygon was simplified at
RECURSIVE ToleranceLoop(_, _, _, _)
ToleranceLoop(polygon, tolerance, stop, tried) ==
    IF tolerance >= stop THEN [polygon |-> polygon, tried |-> tried]
    ELSE IF polygon.valid THEN [polygon |-> polygon, tried |-> tried]
    ELSE ToleranceLoop(simplify(polygon, tolerance), tolerance + 1, stop,
                       Append(tried, tolerance))

\* make_valid(polygon), with the polygon as the first loop leaves it
make_valid_loops(polygon) ==
    LET rotated == RotationLoop(polygon, 1, polygon.coords - 1)
    IN  [kind |-> "made_valid", rotated |-> rotated] @@
        ToleranceLoop(rotated, 1, rotated.area, <<>>)

MakeValidArguments(in) ==
    \E vertices \in 3 .. MaxVertices :
    \E valid \in BOOLEAN, area \in 0 .. MaxArea :
    \E fix \in [0 .. (vertices - 1) -> 1 .. (MaxArea + 1)] :
        in = [coords |-> vertices + 1, start |-> 0, valid |-> valid,
              area |-> area, fix |-> fix]

MakeValidInit ==
    /\ MakeValidArguments(input)
    /\ geometry = NoGeometry
    /\ pc = "call"
    /\ err = ""
    /\ TextRegion = <<>> /\ region = <<>> /\ line = <<>> /\ ro_elems = <<>>
    /\ reading_order = <<>> /\ oldregions = <<>> /\ worse = <<>> /\ best = <<>>
    /\ i = 0 /\ log = <<>>

MakeValid ==
    /\ pc = "call"
    /\ geometry' = make_valid_loops(input)
    /\ pc' = "returned"
    /\ UNCHANGED <<input, TextRegion, region, line, ro_elems, reading_order,
                   oldregions, worse, best, i, log, err>>

MakeValidNext == MakeValid

MakeValidSpec == MakeValidInit /\ [][MakeValidNext]_vars

\* ========================================================= dilation loop
\* the loop "dilate and find (outer) contour" step by step, for one mask
\* masks of two runs of columns, l1 and l2 wide, gap columns apart, and the
\* mask without any pixel
RunLengths == {1, 5, 8}
DilationArguments(in) ==
    \E components \in {ComponentsBlank, ComponentsBlob} :
        \/ in = [mask |-> MaskEmpty, components |-> components]
        \/ \E a \in {0, 2}, l1 \in RunLengths, l2 \in RunLengths :
           \E gap \in 1 .. (RasterCols - 20) :
               in = [mask |-> (a .. (a + l1 - 1)) \cup
                              ((a + l1 + gap) .. (a + l1 + gap + l2 - 1)),
                     components |-> components]

\* area, scale, the filled mask and contours = [None, None]
DilationInit ==
    /\ DilationArguments(input)
    /\ geometry = [kind |-> "dilation",
                   scale |-> ScaleOf(CountNonzero(input.mask)),
                   mask |-> FillComponents(input.mask, input.components),
                   contours |-> <<<<>>, <<>>>>,
                   dilations |-> 0]
    /\ pc = "loop"
    /\ err = ""
    /\ TextRegion = <<>> /\ region = <<>> /\ line = <<>> /\ ro_elems = <<>>
    /\ reading_order = <<>> /\ oldregions = <<>> /\ worse = <<>> /\ best = <<>>
    /\ i = 0 /\ log = <<>>

\* one pass of the loop body: mask = cv2.dilate(...) > 0; contours, _ = cv2.findContours(...)
DilateAndFindContours ==
    /\ pc = "loop"
    /\ geometry.dilations < MaxDilations
    /\ Len(geometry.contours) # 1
    /\ geometry' = [geometry EXCEPT
                       !.mask = Dilate(@, geometry.scale),
                       !.contours = FindContours(Dilate(geometry.mask, geometry.scale)),
                       !.dilations = @ + 1]
    /\ UNCHANGED <<input, TextRegion, region, line, ro_elems, reading_order,
                   oldregions, worse, best, i, log, pc, err>>

\* the loop is left (break, or range(10) is used up) and contours[0] is taken
TakeFirstContour ==
    /\ pc = "loop"
    /\ geometry.dilations = MaxDilations \/ Len(geometry.contours) = 1
    /\ Len(geometry.contours) > 0
    /\ geometry' = [geometry EXCEPT !.kind = "contour"]
    /\ pc' = "returned"
    /\ UNCHANGED <<input, TextRegion, region, line, ro_elems, reading_order,
                   oldregions, worse, best, i, log, err>>

\* the loop is left and contours[0] raises: contours is empty
NoContour ==
    /\ pc = "loop"
    /\ geometry.dilations = MaxDilations \/ Len(geometry.contours) = 1
    /\ Len(geometry.contours) = 0
    /\ pc' = "error"
    /\ err' = "IndexError: tuple index out of range"
    /\ UNCHANGED <<input, TextRegion, region, line, ro_elems, reading_order,
                   oldregions, worse, best, i, log, geometry>>

DilationNext == DilateAndFindContours \/ TakeFirstContour \/ NoContour

DilationSpec == DilationInit /\ [][DilationNext]_vars

\* ================================================================ claims
\* the instance loop is between two instances, or the page is finished
BetweenInstances == pc \in {"instances", "done"}
Instances == 0 .. (NumInstances - 1)
Suppressed == Range(worse)
InTree(r) == r \in Range(TextRegion)
LogEntries == Range(log)
\* the ids and annotation the claims speak of, written out
AddressAnnotations == {"subtype: ADDRESS_FULL"}
RegionIds == <<"addressregion01", "addressregion02", "addressregion03",
               "addressregion04", "addressregion05", "addressregion06">>

\* C1: a candidate that is discarded by the acceptance gate leaves every
\* sibling it subsumed in the page tree, with the ids of its text lines and
\* its reading-order reference as they were in the input.
C1_DiscardKeepsSibling ==
    \A e \in LogEntries :
        ~e.added =>
            \A r \in Range(e.removed) :
                /\ InTree(r)
                /\ \A k \in DOMAIN input.regions[r].TextLine :
                       line[<<r, k>>].id = input.regions[r].TextLine[k].id
                /\ \A k \in DOMAIN ro_elems :
                       input.ReadingOrder[k] = input.regions[r].id
                           => ro_elems[k] = input.regions[r].id

\* C2: a candidate whose clipped polygon is None does not end the page.
C2_NoneDoesNotAbort == ~(pc = "error" /\ geometry.kind = "None")

\* C3 (as claimed): after the suppression pass exactly one instance of every
\* pair with mask IoU > 0.5 is in the suppressed set.
C3_ExactlyOneOfPair ==
    pc \notin {"suppress", "error"} =>
        \A a, b \in Instances :
            (a < b /\ IoUAboveHalf(masks(a), masks(b)))
                => ((a \in Suppressed) # (b \in Suppressed))

\* C3 (amended): after the suppression pass, of every pair (a, b), a < b, with
\* mask IoU > 0.5 the lower-scoring instance (on equal scores the later one,
\* b) is in the suppressed set, and an instance is in the set only if it is
\* the loser of such a pair.
C3_LoserOfPairSuppressed ==
    pc \notin {"suppress", "error"} =>
        /\ \A a, b \in Instances :
               (a < b /\ IoUAboveHalf(masks(a), masks(b))) =>
                   /\ scores(a) < scores(b) => a \in Suppressed
                   /\ scores(a) >= scores(b) => b \in Suppressed
        /\ \A w \in Suppressed :
               \E o \in Instances :
                   /\ o # w
                   /\ IoUAboveHalf(masks(w), masks(o))
                   /\ \/ w < o /\ scores(w) < scores(o)
                      \/ o < w /\ scores(w) <= scores(o)

\* three mutually overlapping instances, two of them suppressed
C3_Witness ==
    /\ pc = "best"
    /\ NumInstances = 3
    /\ \A a, b \in Instances : a # b => IoUAboveHalf(masks(a), masks(b))
    /\ Cardinality(Suppressed) = 2

\* C4: a page whose detector output holds an instance of the background class
\* never completes, and ends in 'detected region for background class'.
C4_BackgroundIsFatal ==
    (\E k \in Instances : class_ids(k) = 0) =>
        /\ pc # "done"
        /\ pc = "error" => err = "detected region for background class"

\* C5: between instances every region id is the regionRef of at most one
\* ReadingOrder element.
C5_OneReferencePerRegion ==
    BetweenInstances =>
        \A a, b \in DOMAIN ro_elems : ro_elems[a] = ro_elems[b] => a = b

\* C6: between instances every text line of the input page is a child of
\* exactly one region of the page tree.
C6_LineOwnedOnce ==
    BetweenInstances =>
        \A l \in InputLines :
            Cardinality({k \in DOMAIN TextRegion :
                            l \in Range(region[TextRegion[k]].TextLine)}) = 1

\* C7: the region made for an instance is in the page tree if and only if at
\* least one text line transferred into it carries the address annotation.
C7_AddedIffAddressLine ==
    \A k \in Instances :
        InTree(NewRegion(k)) <=>
            /\ NewRegion(k) \in DOMAIN region
            /\ \E l \in Range(region[NewRegion(k)].TextLine) :
                   line[l].custom \in AddressAnnotations

\* a candidate committed with lines of a subsumed sibling, and one discarded
\* although it subsumed a sibling
C7_Witness ==
    /\ \E e \in LogEntries : e.added /\ Len(e.removed) > 0
    /\ \E e \in LogEntries : ~e.added /\ Len(e.removed) > 0

\* C8: at most one instance is processed under each unique-role category, an
\* instance of category 1 or 2 is relabeled to category 3 exactly if its score
\* is below the category's maximum, and no other instance is relabeled.
C8_UniqueRole ==
    /\ \A e, f \in LogEntries :
           (e.name = f.name /\ e.name \in {"address-rcpt", "address-sndr"})
               => e.instance = f.instance
    /\ \A e \in LogEntries :
           e.name = IF /\ class_ids(e.instance) \in {1, 2}
                       /\ \E k \in Instances \ Suppressed :
                              /\ class_ids(k) = class_ids(e.instance)
                              /\ scores(k) > scores(e.instance)
                    THEN "address-contact"
                    ELSE categories[class_ids(e.instance) + 1]

\* C9 (as claimed): the id of a candidate region is the sequence number of its
\* instance among the instances that survive suppression.
C9_IdCountsSurvivors ==
    \A e \in LogEntries :
        e.region_id =
            RegionIds[1 + Cardinality({k \in Instances \ Suppressed : k < e.instance})]

\* C9 (amended): the id of a candidate region is the 1-based position of its
\* instance in the detector output, suppressed instances counted.
C9_IdIsDetectorPosition ==
    \A e \in LogEntries :
        /\ e.region_id = RegionIds[e.instance + 1]
        /\ region[NewRegion(e.instance)].id = RegionIds[e.instance + 1]

\* the second instance is processed after the first was suppressed
C9_Witness ==
    \E e \in LogEntries :
        e.instance = 1 /\ 0 \in Suppressed /\ e.region_id = "addressregion02"

\* C10: between instances the regions of the page tree have pairwise
\* distinct ids.
C10_DistinctRegionIds ==
    BetweenInstances =>
        \A a, b \in DOMAIN TextRegion :
            region[TextRegion[a]].id = region[TextRegion[b]].id => a = b
\* the page tree: the regions, their lines and line ids, the reading order
PageTree ==
    <<TextRegion, [k \in DOMAIN TextRegion |-> region[TextRegion[k]]], line, ro_elems>>

\* C11: the steps of an instance that ends in an error (the post-processing of
\* its mask, and the step that raises) leave the page tree as it was when the
\* previous instance was completed.
C11_AbortLeavesTree ==
    [][pc' \in {"clipped", "error"} => PageTree' = PageTree]_vars

\* C12: a polygon that polygon_for_parent returns lies within the parent
\* polygon, also when it is the convex hull of an intersection in several parts.
C12_ResultWithinParent ==
    (pc = "returned" /\ geometry.kind = "polygon")
        => geometry.cells \subseteq ParentPolygon(input.parent)

\* the intersection with the page is in several parts and the hull that is
\* returned covers more than the parts
C12_Witness ==
    /\ pc = "returned"
    /\ geometry.kind = "polygon"
    /\ geometry.hull
    /\ IsMultiPolygon(input.polygon \cap ParentPolygon(input.parent))
    /\ geometry.cells # input.polygon \cap ParentPolygon(input.parent)
    /\ input.parent.imageWidth < ClipCols

\* C13 (as claimed): the verdicts 'disjoint' and 'crossing' do not depend on
\* the order of the two polygons, no two polygons are subsumed by each other,
\* and a polygon that is marked subsumed is the smaller one, within the other.
C13_VerdictSymmetry ==
    pc = "returned" =>
        /\ geometry.forward \in {"disjoint", "crossing"}
               => geometry.backward = geometry.forward
        /\ ~(geometry.forward = "subsumed" /\ geometry.backward = "subsumed")
        /\ geometry.forward = "subsumed"
               => (Within(input.E, input.C) /\ Area(input.E) <= Area(input.C))

\* C13 (amended): E is subsumed by C exactly if E lies within C dilated by
\* scale or more than 80% of the area of E lies in C; this holds in both
\* orders for equal polygons, so 'subsumed' is not asymmetric; 'crossing' is
\* never the verdict for two polygons; 'overlapping' for E against C goes with
\* 'overlapping' or 'subsumed' for C against E.
C13_SubsumedByCoverage ==
    pc = "returned" =>
        /\ geometry.forward = "subsumed" <=>
               \/ Within(input.E, Buffer(input.C, input.scale))
               \/ 5 * IntersectionArea(input.E, input.C) > 4 * Area(input.E)
        /\ input.E = input.C
               => (geometry.forward = "subsumed" /\ geometry.backward = "subsumed")
        /\ geometry.forward # "crossing"
        /\ geometry.forward = "overlapping"
               => geometry.backward \in {"overlapping", "subsumed"}

\* two different polygons, each subsumed by the other
C13_Witness ==
    /\ pc = "returned"
    /\ geometry.kind = "verdict"
    /\ input.E # input.C
    /\ ~Within(input.E, input.C)
    /\ geometry.forward = "subsumed"
    /\ geometry.backward = "subsumed"

\* the objects of the regions made for the instances
NewRegions == DOMAIN region \ (1 .. NumRegions)

\* C14: every region of the input page is removed at most once, and is out
\* of the page tree from then on; every text line of the input page is
\* transferred at most once (it is in at most one new region, once).
C14_RemovedOnce ==
    /\ \A a, b \in DOMAIN oldregions : oldregions[a] = oldregions[b] => a = b
    /\ \A r \in Range(oldregions) : ~InTree(r)
    /\ \A l \in InputLines :
           Cardinality({<<n, k>> \in NewRegions \X (1 .. (MaxRegions * MaxLines)) :
                           /\ k \in DOMAIN region[n].TextLine
                           /\ region[n].TextLine[k] = l}) <= 1

\* a region removed in favour of one candidate meets the test of a later
\* candidate, which has been processed
C14_Witness ==
    \E e, f \in LogEntries :
        /\ e.instance < f.instance
        /\ \E r \in Range(e.removed) :
               Redundant(
                   coordinates_of_segment(input.regions[r].Coords, input.page_coords),
                   coordinates_of_segment(region[NewRegion(f.instance)].Coords,
                                          input.page_coords),
                   ScaleOf(CountNonzero(masks(f.instance))))

\* the line ids the claims speak of, written out
LineSuffixes == <<"_line00", "_line01", "_line02", "_line03", "_line04", "_line05",
                  "_line06", "_line07", "_line08", "_line09", "_line10", "_line11">>

\* C15: the text lines of the region made for a candidate have the ids
\* <region id>_line00, <region id>_line01, ... in the order of their transfer,
\* without a restart at the next sibling, and so pairwise distinct ids.
C15_LinesNumberedInOrder ==
    \A n \in NewRegions :
        /\ \A k \in DOMAIN region[n].TextLine :
               line[region[n].TextLine[k]].id = region[n].id \o LineSuffixes[k]
        /\ \A k, m \in DOMAIN region[n].TextLine :
               line[region[n].TextLine[k]].id = line[region[n].TextLine[m]].id => k = m

\* a new region that holds lines of two siblings
C15_Witness ==
    \E n \in NewRegions :
        \E k, m \in DOMAIN region[n].TextLine :
            /\ k < m
            /\ region[n].TextLine[k][1] # region[n].TextLine[m][1]
            /\ line[region[n].TextLine[m]].id = region[n].id \o LineSuffixes[m]

\* C16: when the polygon is invalid after the rotations, it is simplified at
\* the tolerances 1, 2, ... up to and including its area until it is valid: the
\* polygon returned is valid whenever simplification at some tolerance in
\* 1 .. area gives a valid polygon, and if it is not valid every tolerance in
\* 1 .. area has been tried.
C16_TriesUpToArea ==
    (pc = "returned" /\ ~geometry.rotated.valid) =>
        /\ (\E tolerance \in 1 .. geometry.rotated.area :
                simplify(geometry.rotated, tolerance).valid)
               => geometry.polygon.valid
        /\ ~geometry.polygon.valid
               => geometry.tried = [t \in 1 .. geometry.rotated.area |-> t]

\* C17: the dilation loop dilates at most 10 times, does not dilate again once
\* an extraction has given exactly one contour, and always ends with a first
\* contour to take (never with an error), also for a mask without contours.
C17_LoopEndsWithContour ==
    /\ [](geometry.dilations <= 10)
    /\ [][Len(geometry.contours) = 1 => geometry'.dilations = geometry.dilations]_vars
    /\ [](pc # "error")
    /\ [](pc = "returned" => Len(geometry.contours) > 0)

\* C18: when every reading-order reference of the input page names a region
\* of the page, every reading-order reference of the finished page names a
\* region that is in the page tree.
C18_ReferencesTargetTree ==
    (/\ pc = "done"
     /\ \A k \in DOMAIN input.ReadingOrder :
            \E r \in 1 .. NumRegions : input.regions[r].id = input.ReadingOrder[k])
        => \A k \in DOMAIN ro_elems :
               \E t \in DOMAIN TextRegion : region[TextRegion[t]].id = ro_elems[k]
====
